---- MODULE Spec2Model ----
(***************************************************************************)
(* Model of the fetch-merge-render pipeline of cricket_player_rag:         *)
(*   - the two HTTP clients, get() of build_ipl_auction_dataset.py and     *)
(*     get_json() of build_free_source_pdfs.py (specification SpecHttp);   *)
(*   - the batch loops of the two main() functions and the metadata        *)
(*     upsert (specification SpecBatch);                                   *)
(*   - the team scalar of derive_basic_fields / find_value                 *)
(*     (specification SpecFields);                                         *)
(*   - extract_age_from_born (specification SpecAge);                      *)
(*   - extract_players_from_espn_html (specification SpecListing);         *)
(*   - wrap_text of build_free_source_pdfs.py and draw_wrapped of          *)
(*     build_ipl_auction_dataset.py (specification SpecWrap);              *)
(*   - sanitize_for_pdf (specification SpecSanitize);                      *)
(*   - the page layout of the two write_pdf (specification SpecRender).    *)
(* Times are in tenths of a second (1.2 s = 12, 1.5 s = 15); lengths on    *)
(* the page are in thousandths of a point (14 pt = 14000).                 *)
(***************************************************************************)
EXTENDS Integers, Sequences, FiniteSets, TLC

VARIABLES
    \* ---- HTTP clients ----
    client,        \* which client this process uses: "get" or "get_json"
    now,           \* time.monotonic()
    LAST_REQUEST_TS, \* the module global _LAST_REQUEST_TS of get()
    hpc,           \* "idle", "running", "returned", "raised"
    attempt,       \* the loop variable of the current call
    outcomes,      \* what the server answered to each attempt of the current call
    waits,         \* throttle sleep before each attempt of the current call
    backoffs,      \* backoff sleep after each attempt of the current call (0: none)
    last_exc,      \* get_json's last_exc
    err,           \* the exception the current call raised
    result,        \* the value the current call returned
    calls,         \* number of calls made so far
    prevIssue,     \* time the request before the last one was issued (-1: none)
    lastIssue,     \* time the last request was issued (-1: none)
    \* ---- batch loops of the two main() ----
    program,       \* "ipl": build_ipl_auction_dataset, "free": build_free_source_pdfs
    players,       \* the subjects of the run, in list order
    priorFile,     \* player_metadata.json as the run found it
    file,          \* player_metadata.json now
    writes,        \* number of writes of player_metadata.json in this run
    existing_metadata, \* main's existing_metadata
    metadata,      \* main's metadata
    success_count, \* main's success_count
    idx,           \* the loop index i (1-based)
    bpc,           \* "load", "loop", "persist", "done"; "off" outside SpecBatch
    spc,           \* place within the current subject
    subj,          \* locals of the current subject and what its sources answered
    log,           \* the per-subject status lines printed so far, with the subject's record
    pdfs,          \* the documents written by this run: name -> "text-only" / "with-image"
    \* ---- derive_basic_fields ----
    infobox,       \* the infobox: a sequence of <<key, value>>, keys distinct (dict order)
    ipl_team,      \* the external hint
    fpc,           \* "input", "derived"; "off" outside SpecFields
    current_team,  \* the "ipl_team" field of the result
    \* ---- extract_age_from_born ----
    born_text,     \* the argument: a sequence of characters
    utc_year,      \* dt.datetime.utcnow().year
    apc,           \* "input", "returned"; "off" outside SpecAge
    age,           \* the returned string: a sequence of characters
    \* ---- extract_players_from_espn_html ----
    html,          \* the listing page: its script fragments and table rows, in page order
    epc,           \* "input", "returned"; "off" outside SpecListing
    listed,        \* the returned list of players
    \* ---- wrap_text and draw_wrapped ----
    wrapper,       \* which of the two runs: "wrap_text" or "draw_wrapped"
    text,          \* the text to wrap: a sequence of characters
    max_width,     \* the width budget
    wpc,           \* "input", "returned"; "off" outside SpecWrap
    lines,         \* the list wrap_text returned
    drawn,         \* the drawString calls of draw_wrapped: [y, text], in order
    y_after,       \* the y draw_wrapped returned
    \* ---- sanitize_for_pdf ----
    raw_text,      \* the argument: a sequence of code points
    cpc,           \* "input", "returned"; "off" outside SpecSanitize
    sanitized,     \* the returned string: a sequence of code points
    \* ---- the two write_pdf ----
    renderer,      \* "free": build_free_source_pdfs, "ipl": build_ipl_auction_dataset
    sections,      \* free: for each section, the number of lines its body wraps to
    player,        \* ipl: the numbers of lines the extract, the stats and the source wrap to
    rpc,           \* place within write_pdf; "off" outside SpecRender
    y,             \* the vertical cursor
    page,          \* the page being drawn on (1-based)
    sec,           \* index of the current section or stats item
    ln,            \* index of the next line of the current body
    last_draw,     \* the last drawString: [kind, y, page, ln]
    heading_draw   \* the last drawString of a heading

httpVars == <<client, now, LAST_REQUEST_TS, hpc, attempt, outcomes, waits,
              backoffs, last_exc, err, result, calls, prevIssue, lastIssue>>

batchVars == <<program, players, priorFile, file, writes, existing_metadata,
               metadata, success_count, idx, bpc, spc, subj, log, pdfs>>

fieldVars == <<infobox, ipl_team, fpc, current_team>>

ageVars == <<born_text, utc_year, apc, age>>

\* The variables of the text and layout functions, each with its own
\* specification.
listingVars == <<html, epc, listed>>

wrapVars == <<wrapper, text, max_width, wpc, lines, drawn, y_after>>

sanitizeVars == <<raw_text, cpc, sanitized>>

renderVars == <<renderer, sections, player, rpc, y, page, sec, ln, last_draw,
                heading_draw>>

textVars == <<ageVars, listingVars, wrapVars, sanitizeVars, renderVars>>

vars == <<httpVars, batchVars, fieldVars, textVars>>

nonHttpVars == <<batchVars, fieldVars, textVars>>
nonBatchVars == <<httpVars, fieldVars, textVars>>
nonFieldVars == <<httpVars, batchVars, textVars>>
nonAgeVars == <<httpVars, batchVars, fieldVars, listingVars, wrapVars,
                sanitizeVars, renderVars>>
nonListingVars == <<httpVars, batchVars, fieldVars, ageVars, wrapVars,
                    sanitizeVars, renderVars>>
nonWrapVars == <<httpVars, batchVars, fieldVars, ageVars, listingVars,
                 sanitizeVars, renderVars>>
nonSanitizeVars == <<httpVars, batchVars, fieldVars, ageVars, listingVars,
                     wrapVars, renderVars>>
nonRenderVars == <<httpVars, batchVars, fieldVars, ageVars, listingVars,
                   wrapVars, sanitizeVars>>

----------------------------------------------------------------------------
(* Bounds of the model *)

MaxCalls == 2
MaxPlayers == 2
MaxInfobox == 3
MaxBorn == 3
MaxItems == 3
MaxText == 6
MaxRaw == 4
MaxSections == 3

\* Values of time.monotonic() when the process makes its first call.
StartClocks == {0, 40}
\* Time the caller spends between two calls.
IdleTimes == {0, 30}
\* Time from issuing a request to its response (or to its exception).
Durations == {1, 20}

----------------------------------------------------------------------------
(* Program constants *)

REQUEST_INTERVAL_SECONDS == 12
retries == 4
JSON_ATTEMPTS == 3
JSON_BACKOFF == 15

\* status_code in (403, 429, 500, 502, 503, 504), restricted to the modelled statuses
RetryableGet == {403, 429, 500, 502, 503, 504}
\* status_code in (429, 500, 502, 503, 504)
RetryableJson == {429, 500, 502, 503, 504}

\* Statuses the server may answer; 0 stands for a transport exception
\* (session.get raises, there is no response).
Statuses == {200, 403, 404, 503}
TransportExc == 0

\* An outcome of one request: the status and whether the body parses as JSON.
Outcomes ==
    {[status |-> s, jsonOk |-> TRUE] : s \in Statuses \cup {TransportExc}}
        \cup {[status |-> 200, jsonOk |-> FALSE]}

\* Python's None, where an outcome is expected.
None == [status |-> -1, jsonOk |-> FALSE]
NoVal == None
\* No exception. An exception is modelled by its type, the outcome that caused
\* it (None: it names no cause) and whether its message carries the URL.
NoErr == [type |-> "none", cause |-> None, url |-> FALSE]

\* requests.Response.raise_for_status: raises HTTPError for 4xx and 5xx.
RaisesForStatus(status) == status >= 400 /\ status < 600

----------------------------------------------------------------------------
(* get() of build_ipl_auction_dataset.py *)

\* wait = REQUEST_INTERVAL_SECONDS - (now - _LAST_REQUEST_TS); sleep if wait > 0
ThrottleWait(t, last) ==
    LET wait == REQUEST_INTERVAL_SECONDS - (t - last)
    IN  IF wait > 0 THEN wait ELSE 0

\* A backoff that does not grow with the attempt.
GetBackoffFlat(a) == REQUEST_INTERVAL_SECONDS

\* time.sleep((attempt + 1) * REQUEST_INTERVAL_SECONDS)
GetBackoff(a) == (a + 1) * REQUEST_INTERVAL_SECONDS

\* if r.status_code in (...): if attempt < retries - 1: sleep; continue
GetRetries(status, a) == status \in RetryableGet /\ a < retries - 1

\* The caller starts a call of get().
CallGet ==
    /\ client = "get"
    /\ hpc # "running"
    /\ calls < MaxCalls
    /\ \E idle \in IdleTimes : now' = now + (IF calls = 0 THEN 0 ELSE idle)
    /\ hpc' = "running"
    /\ attempt' = 0
    /\ outcomes' = <<>>
    /\ waits' = <<>>
    /\ backoffs' = <<>>
    /\ err' = NoErr
    /\ result' = NoVal
    /\ calls' = calls + 1
    /\ UNCHANGED <<client, LAST_REQUEST_TS, last_exc, prevIssue, lastIssue>>
    /\ UNCHANGED nonHttpVars

\* One iteration of the loop of get().
GetAttempt ==
    /\ client = "get"
    /\ hpc = "running"
    /\ \E o \in {x \in Outcomes : x.jsonOk}, d \in Durations :
        LET slept == ThrottleWait(now, LAST_REQUEST_TS)
            issueAt == now + slept
            doneAt == issueAt + d
        IN  /\ prevIssue' = lastIssue
            /\ lastIssue' = issueAt
            /\ waits' = Append(waits, slept)
            /\ outcomes' = Append(outcomes, o)
            /\ IF o.status = TransportExc
               THEN \* SESSION.get raises: the exception leaves get()
                    /\ now' = doneAt
                    /\ hpc' = "raised"
                    /\ err' = [type |-> "ConnectionError", cause |-> o,
                               url |-> TRUE]
                    /\ UNCHANGED <<LAST_REQUEST_TS, attempt, backoffs, result>>
               ELSE /\ LAST_REQUEST_TS' = doneAt
                    /\ IF GetRetries(o.status, attempt)
                       THEN /\ now' = doneAt + GetBackoff(attempt)
                            /\ backoffs' = Append(backoffs, GetBackoff(attempt))
                            /\ attempt' = attempt + 1
                            /\ UNCHANGED <<hpc, err, result>>
                       ELSE /\ now' = doneAt
                            /\ backoffs' = Append(backoffs, 0)
                            /\ IF RaisesForStatus(o.status)
                               THEN /\ hpc' = "raised"
                                    /\ err' = [type |-> "HTTPError", cause |-> o,
                                               url |-> TRUE]
                                    /\ UNCHANGED result
                               ELSE /\ hpc' = "returned"
                                    /\ result' = o
                                    /\ UNCHANGED err
                            /\ UNCHANGED attempt
    /\ UNCHANGED <<client, last_exc, calls>>
    /\ UNCHANGED nonHttpVars

----------------------------------------------------------------------------
(* get_json() of build_free_source_pdfs.py *)

\* time.sleep(1.5 * (attempt + 1))
JsonBackoff(a) == JSON_BACKOFF * (a + 1)

\* if r.status_code in (429, 500, 502, 503, 504): sleep; continue
JsonRetryableStatus(status) == status \in RetryableJson

\* What the try block raises into "except Exception": session.get raising,
\* raise_for_status raising, or r.json() raising.
JsonCaught(o) ==
    \/ o.status = TransportExc
    \/ RaisesForStatus(o.status)
    \/ ~o.jsonOk

\* last_exc after an attempt with outcome o
JsonLastExc(o, prev) ==
    IF o.status # TransportExc /\ JsonRetryableStatus(o.status) THEN prev
    ELSE IF JsonCaught(o) THEN o
    ELSE prev

CallGetJson ==
    /\ client = "get_json"
    /\ hpc # "running"
    /\ calls < MaxCalls
    /\ \E idle \in IdleTimes : now' = now + (IF calls = 0 THEN 0 ELSE idle)
    /\ hpc' = "running"
    /\ attempt' = 0
    /\ outcomes' = <<>>
    /\ waits' = <<>>
    /\ backoffs' = <<>>
    /\ last_exc' = None
    /\ err' = NoErr
    /\ result' = NoVal
    /\ calls' = calls + 1
    /\ UNCHANGED <<client, LAST_REQUEST_TS, prevIssue, lastIssue>>
    /\ UNCHANGED nonHttpVars

\* One iteration of the loop of get_json().
GetJsonAttempt ==
    /\ client = "get_json"
    /\ hpc = "running"
    /\ attempt < JSON_ATTEMPTS
    /\ \E o \in Outcomes, d \in Durations :
        LET doneAt == now + d
            retry == (o.status # TransportExc /\ JsonRetryableStatus(o.status))
                        \/ JsonCaught(o)
        IN  /\ waits' = Append(waits, 0)
            /\ outcomes' = Append(outcomes, o)
            /\ last_exc' = JsonLastExc(o, last_exc)
            /\ IF retry
               THEN /\ now' = doneAt + JsonBackoff(attempt)
                    /\ backoffs' = Append(backoffs, JsonBackoff(attempt))
                    /\ attempt' = attempt + 1
                    /\ UNCHANGED <<hpc, result>>
               ELSE /\ now' = doneAt
                    /\ backoffs' = Append(backoffs, 0)
                    /\ hpc' = "returned"
                    /\ result' = o
                    /\ UNCHANGED attempt
    /\ UNCHANGED <<client, LAST_REQUEST_TS, err, calls, prevIssue, lastIssue>>
    /\ UNCHANGED nonHttpVars

\* The loop is over: raise RuntimeError(f"... for {url}: {last_exc}")
GetJsonExhausted ==
    /\ client = "get_json"
    /\ hpc = "running"
    /\ attempt = JSON_ATTEMPTS
    /\ hpc' = "raised"
    /\ err' = [type |-> "RuntimeError", cause |-> last_exc, url |-> TRUE]
    /\ UNCHANGED <<client, now, LAST_REQUEST_TS, attempt, outcomes, waits, backoffs,
                   last_exc, result, calls, prevIssue, lastIssue>>
    /\ UNCHANGED nonHttpVars

----------------------------------------------------------------------------

\* The HTTP clients at rest, in the specifications that do not run them.
HttpOff ==
    /\ client = "off"
    /\ now = 0
    /\ LAST_REQUEST_TS = 0
    /\ hpc = "off"
    /\ attempt = 0
    /\ outcomes = <<>>
    /\ waits = <<>>
    /\ backoffs = <<>>
    /\ last_exc = None
    /\ err = NoErr
    /\ result = NoVal
    /\ calls = 0
    /\ prevIssue = -1
    /\ lastIssue = -1

HttpStart ==
    /\ client \in {"get", "get_json"}
    /\ now \in StartClocks
    /\ LAST_REQUEST_TS = 0
    /\ hpc = "idle"
    /\ attempt = 0
    /\ outcomes = <<>>
    /\ waits = <<>>
    /\ backoffs = <<>>
    /\ last_exc = None
    /\ err = NoErr
    /\ result = NoVal
    /\ calls = 0
    /\ prevIssue = -1
    /\ lastIssue = -1

----------------------------------------------------------------------------
(* The batch loops: main() of build_ipl_auction_dataset.py and main() of     *)
(* build_free_source_pdfs.py, with the metadata upsert of the former.        *)

\* A names b: the store's keys and the canonical titles Wikipedia resolves to.
Names == {"A", "B"}

\* json.loads of a missing, unreadable or readable player_metadata.json
Absent == [kind |-> "absent", data |-> <<>>]
Unreadable == [kind |-> "unreadable", data |-> <<>>]
Mapping(d) == [kind |-> "mapping", data |-> d]

\* An entry an earlier run (or another tool) left in the store for name n.
PriorRecord(n) ==
    [name |-> n, pdf_path |-> n, image_path |-> "old", legacy |-> "x"]

PriorFiles ==
    {Absent, Unreadable}
        \cup {Mapping([n \in S |-> PriorRecord(n)]) : S \in SUBSET Names}

\* The subjects: --player-url gives one subject with an ESPN id, the other
\* sources give a non-empty list of names without one.
Subject(n, id) == [name |-> n, espn_player_id |-> id]

SeqsUpTo(S, k) == UNION {[1..m -> S] : m \in 1..k}

NoSubj ==
    [name |-> "", wiki |-> "skipped", lookup |-> "skipped", espn |-> "skipped",
     download |-> "skipped", wikidata |-> "skipped", render |-> "skipped",
     image_local |-> ""]

NoRecord == [name |-> ""]

\* The metadata entry of lines 579-587.
NewRecord(s) ==
    [name |-> s.name, pdf_path |-> s.name, image_path |-> s.image_local,
     espn_stats |-> IF s.espn = "ok" THEN "stats" ELSE "none"]

\* The loop goes on with the next subject after "except Exception".
AfterErrorAbort(i) == Len(players) + 1

AfterError(i) == i + 1

\* bpc once the loop index has moved to i
LoopPc(i) ==
    IF i <= Len(players) THEN "loop"
    ELSE IF program = "ipl" THEN "persist" ELSE "done"

\* except Exception as exc: print(... ERROR ...), then the next subject
SubjectError(s) ==
    /\ log' = Append(log, [idx |-> idx, line |-> "ERROR", subj |-> s,
                           record |-> NoRecord])
    /\ idx' = AfterError(idx)
    /\ bpc' = LoopPc(AfterError(idx))
    /\ spc' = "wiki"
    /\ subj' = NoSubj
    /\ UNCHANGED <<metadata, success_count, pdfs>>

\* {**a, **b} with the entries of one name merged field by field.
MergeFieldwise(a, b) ==
    [n \in DOMAIN a \cup DOMAIN b |->
        IF n \in DOMAIN a /\ n \in DOMAIN b
        THEN [f \in DOMAIN a[n] \cup DOMAIN b[n] |->
                IF f \in DOMAIN b[n] THEN b[n][f] ELSE a[n][f]]
        ELSE IF n \in DOMAIN b THEN b[n] ELSE a[n]]

\* {**a, **b}
Merge(a, b) ==
    [n \in DOMAIN a \cup DOMAIN b |-> IF n \in DOMAIN b THEN b[n] ELSE a[n]]

\* merged = {**existing_metadata, **metadata} (line 599)
Merged(existing, new) == Merge(existing, new)

\* Lines 521-526: read the store; a missing or unreadable one counts as {}.
LoadExisting ==
    /\ program = "ipl"
    /\ bpc = "load"
    /\ existing_metadata' = IF priorFile.kind = "mapping" THEN priorFile.data ELSE <<>>
    /\ bpc' = "loop"
    /\ UNCHANGED <<program, players, priorFile, file, writes, metadata,
                   success_count, idx, spc, subj, log, pdfs>>
    /\ UNCHANGED nonBatchVars

\* fetch_wiki_player (line 533): the query, the parse request and
\* fetch_page_image, each through get(); any exception leaves the function.
IplFetchWiki ==
    /\ program = "ipl"
    /\ bpc = "loop"
    /\ spc = "wiki"
    /\ \E w \in {"ok", "missing", "query_fail", "parse_fail"},
          l \in {"url", "none", "fail"},
          title \in Names :
        LET s == [NoSubj EXCEPT !.wiki = w]
        IN  IF w # "ok"
            THEN SubjectError(s)
            ELSE IF l = "fail"
            THEN SubjectError([s EXCEPT !.lookup = l])
            ELSE /\ subj' = [s EXCEPT !.lookup = l, !.name = title]
                 /\ spc' = "espn"
                 /\ UNCHANGED <<metadata, success_count, idx, bpc, log, pdfs>>
    /\ UNCHANGED <<program, players, priorFile, file, writes, existing_metadata>>
    /\ UNCHANGED nonBatchVars

\* Lines 534-562: derive_basic_fields, then the ESPN fetches inside their own
\* try/except when the subject has an ESPN id.
IplEspn ==
    /\ program = "ipl"
    /\ bpc = "loop"
    /\ spc = "espn"
    /\ IF players[idx].espn_player_id
       THEN \E e \in {"ok", "fail"} : subj' = [subj EXCEPT !.espn = e]
       ELSE subj' = subj
    /\ spc' = "image"
    /\ UNCHANGED <<program, players, priorFile, file, writes, existing_metadata,
                   metadata, success_count, idx, bpc, log, pdfs>>
    /\ UNCHANGED nonBatchVars

\* download_image (line 566): "" without a URL or when anything raises.
IplDownloadImage ==
    /\ program = "ipl"
    /\ bpc = "loop"
    /\ spc = "image"
    /\ IF subj.lookup = "url"
       THEN \E d \in {"ok", "fail"} :
                subj' = [subj EXCEPT !.download = d,
                                     !.image_local = IF d = "ok" THEN "img" ELSE ""]
       ELSE subj' = subj
    /\ spc' = "render"
    /\ UNCHANGED <<program, players, priorFile, file, writes, existing_metadata,
                   metadata, success_count, idx, bpc, log, pdfs>>
    /\ UNCHANGED nonBatchVars

\* The call of write_pdf with a handler of its own that swallows the exception.
WritePdfRaisesNever(r) == FALSE

\* Whether the call of write_pdf on line 577 leaves main's try block: it has
\* no handler of its own, so an exception of write_pdf reaches line 590.
WritePdfRaises(r) == r = "fail"

\* write_pdf (line 577): the document is saved, or write_pdf raises.
IplWritePdf ==
    /\ program = "ipl"
    /\ bpc = "loop"
    /\ spc = "render"
    /\ \E r \in {"ok", "fail"} :
        LET s == [subj EXCEPT !.render = r]
        IN  IF WritePdfRaises(r)
            THEN SubjectError(s)
            ELSE /\ subj' = s
                 /\ pdfs' = IF r = "ok"
                            THEN Merge(pdfs, [n \in {s.name} |->
                                    IF s.image_local = "" THEN "text-only" ELSE "with-image"])
                            ELSE pdfs
                 /\ spc' = "record"
                 /\ UNCHANGED <<metadata, success_count, idx, bpc, log>>
    /\ UNCHANGED <<program, players, priorFile, file, writes, existing_metadata>>
    /\ UNCHANGED nonBatchVars

\* Lines 579-589: the metadata entry, the success count and the OK line.
IplRecord ==
    /\ program = "ipl"
    /\ bpc = "loop"
    /\ spc = "record"
    /\ metadata' = Merge(metadata, [n \in {subj.name} |-> NewRecord(subj)])
    /\ success_count' = success_count + 1
    /\ log' = Append(log, [idx |-> idx, line |-> "OK", subj |-> subj,
                           record |-> NewRecord(subj)])
    /\ idx' = idx + 1
    /\ bpc' = LoopPc(idx + 1)
    /\ spc' = "wiki"
    /\ subj' = NoSubj
    /\ UNCHANGED <<program, players, priorFile, file, writes, existing_metadata, pdfs>>
    /\ UNCHANGED nonBatchVars

\* Lines 593-601: keep the store, or write the merged one.
Persist ==
    /\ program = "ipl"
    /\ bpc = "persist"
    /\ IF success_count = 0 /\ existing_metadata # <<>>
       THEN UNCHANGED <<file, writes>>
       ELSE /\ file' = Mapping(Merged(existing_metadata, metadata))
            /\ writes' = writes + 1
    /\ bpc' = "done"
    /\ UNCHANGED <<program, players, priorFile, existing_metadata, metadata,
                   success_count, idx, spc, subj, log, pdfs>>
    /\ UNCHANGED nonBatchVars

\* fetch_wikipedia_page_data (line 243): the query and the HTML request,
\* each through get_json().
FreeFetchWiki ==
    /\ program = "free"
    /\ bpc = "loop"
    /\ spc = "wiki"
    /\ \E w \in {"ok", "missing", "query_fail", "parse_fail"},
          qid \in BOOLEAN,
          title \in Names :
        LET s == [NoSubj EXCEPT !.wiki = w]
        IN  IF w # "ok"
            THEN SubjectError(s)
            ELSE /\ subj' = [s EXCEPT !.name = title,
                                      !.wikidata = IF qid THEN "pending" ELSE "skipped"]
                 /\ spc' = "wikidata"
                 /\ UNCHANGED <<metadata, success_count, idx, bpc, log, pdfs>>
    /\ UNCHANGED <<program, players, priorFile, file, writes, existing_metadata>>
    /\ UNCHANGED nonBatchVars

\* Lines 263-268: fetch_wikidata_labels when the page has a wikibase item;
\* the call stands outside any try, so what get_json raises leaves
\* build_player_pdf.
FreeWikidata ==
    /\ program = "free"
    /\ bpc = "loop"
    /\ spc = "wikidata"
    /\ IF subj.wikidata = "pending"
       THEN \E d \in {"ok", "fail"} :
                IF d = "fail"
                THEN SubjectError([subj EXCEPT !.wikidata = d])
                ELSE /\ subj' = [subj EXCEPT !.wikidata = d]
                     /\ spc' = "render"
                     /\ UNCHANGED <<metadata, success_count, idx, bpc, log, pdfs>>
       ELSE /\ spc' = "render"
            /\ UNCHANGED <<subj, metadata, success_count, idx, bpc, log, pdfs>>
    /\ UNCHANGED <<program, players, priorFile, file, writes, existing_metadata>>
    /\ UNCHANGED nonBatchVars

\* write_pdf (line 285) and the "[OK] Generated" line of main (line 304).
FreeWritePdf ==
    /\ program = "free"
    /\ bpc = "loop"
    /\ spc = "render"
    /\ \E r \in {"ok", "fail"} :
        LET s == [subj EXCEPT !.render = r]
        IN  IF r = "fail"
            THEN SubjectError(s)
            ELSE /\ pdfs' = Merge(pdfs, [n \in {s.name} |-> "text-only"])
                 /\ log' = Append(log, [idx |-> idx, line |-> "OK", subj |-> s,
                                        record |-> NoRecord])
                 /\ idx' = idx + 1
                 /\ bpc' = LoopPc(idx + 1)
                 /\ spc' = "wiki"
                 /\ subj' = NoSubj
                 /\ UNCHANGED <<metadata, success_count>>
    /\ UNCHANGED <<program, players, priorFile, file, writes, existing_metadata>>
    /\ UNCHANGED nonBatchVars

\* The batch loops at rest, in the specifications that do not run them.
BatchOff ==
    /\ program = "off"
    /\ players = <<>>
    /\ priorFile = Absent
    /\ file = Absent
    /\ writes = 0
    /\ existing_metadata = <<>>
    /\ metadata = <<>>
    /\ success_count = 0
    /\ idx = 1
    /\ bpc = "off"
    /\ spc = "wiki"
    /\ subj = NoSubj
    /\ log = <<>>
    /\ pdfs = <<>>

\* main() up to line 520: the subjects are known and non-empty.
BatchStart ==
    /\ program \in {"ipl", "free"}
    /\ players \in
        IF program = "ipl"
        THEN {<<Subject(n, TRUE)>> : n \in Names}
                \cup SeqsUpTo({Subject(n, FALSE) : n \in Names}, MaxPlayers)
        ELSE SeqsUpTo({Subject(n, FALSE) : n \in Names}, MaxPlayers)
    /\ priorFile \in (IF program = "ipl" THEN PriorFiles ELSE {Absent})
    /\ file = priorFile
    /\ writes = 0
    /\ existing_metadata = <<>>
    /\ metadata = <<>>
    /\ success_count = 0
    /\ idx = 1
    /\ bpc = IF program = "ipl" THEN "load" ELSE "loop"
    /\ spc = "wiki"
    /\ subj = NoSubj
    /\ log = <<>>
    /\ pdfs = <<>>

----------------------------------------------------------------------------
(* The team scalar of derive_basic_fields and find_value of                  *)
(* build_ipl_auction_dataset.py. Keys are sequences of characters, so that   *)
(* lower() and the substring test are computed.                              *)

KeyCurrentTeam == <<"C", "u", "r", "r", "e", "n", "t", " ", "t", "e", "a", "m">>
KeyTeam == <<"T", "e", "a", "m">>
KeyTeams == <<"T", "e", "a", "m", "s">>
KeyLowerCurrentTeam == <<"c", "u", "r", "r", "e", "n", "t", " ", "t", "e", "a", "m">>
KeyBorn == <<"B", "o", "r", "n">>

\* The keys a page's infobox may hold, each with the value the page gives it
\* (parse_infobox keeps only rows whose key and value are non-empty).
InfoboxKeys == {KeyCurrentTeam, KeyTeam, KeyTeams, KeyLowerCurrentTeam, KeyBorn}

ValueOf(k) ==
    IF k = KeyCurrentTeam THEN "MI"
    ELSE IF k = KeyTeam THEN "CSK"
    ELSE IF k = KeyTeams THEN "RCB"
    ELSE IF k = KeyLowerCurrentTeam THEN "DC"
    ELSE "1988"

Hints == {"", "KKR"}

\* ["Current team", "Team"], the keys derive_basic_fields asks for
TeamKeys == <<KeyCurrentTeam, KeyTeam>>

\* Sequences over S without repetition, of length at most k: a dict's items.
InjectiveSeqs(S, k) ==
    {q \in UNION {[1..m -> S] : m \in 0..k} :
        \A i, j \in 1..Len(q) : i # j => q[i] # q[j]}

\* str.lower on one character
LowerChar(c) ==
    IF c = "C" THEN "c"
    ELSE IF c = "A" THEN "a"
    ELSE IF c = "I" THEN "i"
    ELSE IF c = "T" THEN "t"
    ELSE IF c = "B" THEN "b"
    ELSE c

\* str.lower
Lower(s) == [i \in 1..Len(s) |-> LowerChar(s[i])]

\* sub in s
Contains(sub, s) ==
    \E i \in 0..(Len(s) - Len(sub)) : SubSeq(s, i + 1, i + Len(sub)) = sub

\* k in infobox
HasKey(ib, k) == \E i \in 1..Len(ib) : ib[i][1] = k

\* infobox[k]
Lookup(ib, k) == ib[CHOOSE i \in 1..Len(ib) : ib[i][1] = k][2]

\* any(k.lower() in ak for k in keys)
AnyKeyIn(keys, ak) == \E j \in 1..Len(keys) : Contains(Lower(keys[j]), ak)

\* The second loop of find_value, from item i on.
RECURSIVE RelaxedFrom(_, _, _)
RelaxedFrom(ib, keys, i) ==
    IF i > Len(ib) THEN ""
    ELSE IF AnyKeyIn(keys, Lower(ib[i][1])) /\ ib[i][2] # "" THEN ib[i][2]
    ELSE RelaxedFrom(ib, keys, i + 1)

\* The first loop of find_value, from key j on, then the second.
RECURSIVE ExactFrom(_, _, _)
ExactFrom(ib, keys, j) ==
    IF j > Len(keys) THEN RelaxedFrom(ib, keys, 1)
    ELSE IF HasKey(ib, keys[j]) /\ Lookup(ib, keys[j]) # "" THEN Lookup(ib, keys[j])
    ELSE ExactFrom(ib, keys, j + 1)

find_value(ib, keys) == ExactFrom(ib, keys, 1)

\* The infobox asked first, the hint used only when it yields nothing.
CurrentTeamInfoboxFirst(ib, hint) ==
    IF find_value(ib, TeamKeys) # "" THEN find_value(ib, TeamKeys) ELSE hint

\* current_team = ipl_team or find_value(infobox, ["Current team", "Team"])
CurrentTeam(ib, hint) ==
    IF hint # "" THEN hint ELSE find_value(ib, TeamKeys)

\* derive_basic_fields, its "ipl_team" field
DeriveBasicFields ==
    /\ fpc = "input"
    /\ current_team' = CurrentTeam(infobox, ipl_team)
    /\ fpc' = "derived"
    /\ UNCHANGED <<infobox, ipl_team>>
    /\ UNCHANGED nonFieldVars

\* derive_basic_fields at rest, in the specifications that do not run it.
FieldsOff ==
    /\ infobox = <<>>
    /\ ipl_team = ""
    /\ fpc = "off"
    /\ current_team = ""

FieldsStart ==
    /\ infobox \in {[i \in 1..Len(q) |-> <<q[i], ValueOf(q[i])>>] :
                        q \in InjectiveSeqs(InfoboxKeys, MaxInfobox)}
    /\ ipl_team \in Hints
    /\ fpc = "input"
    /\ current_team = ""

----------------------------------------------------------------------------
(* extract_age_from_born of build_ipl_auction_dataset.py. Texts and the      *)
(* returned age are sequences of characters, so that the search for four     *)
(* digits, int() and str() are computed.                                     *)

Digits == <<"0", "1", "2", "3", "4", "5", "6", "7", "8", "9">>

\* \d on the characters of the model
IsDigit(c) == \E d \in 1..Len(Digits) : Digits[d] = c

DigitValue(c) == (CHOOSE d \in 1..Len(Digits) : Digits[d] = c) - 1

\* int() on a string of digits
RECURSIVE ToInt(_)
ToInt(ds) ==
    IF ds = <<>> THEN 0
    ELSE 10 * ToInt(SubSeq(ds, 1, Len(ds) - 1)) + DigitValue(ds[Len(ds)])

\* str() on an integer
RECURSIVE Str(_)
Str(n) ==
    IF n < 0 THEN <<"-">> \o Str(0 - n)
    ELSE IF n < 10 THEN <<Digits[n + 1]>>
    ELSE Str(n \div 10) \o <<Digits[(n % 10) + 1]>>

\* re.search(r"(\d{4})", s) from position i on: the match, <<>> for None.
RECURSIVE SearchYear(_, _)
SearchYear(s, i) ==
    IF i + 3 > Len(s) THEN <<>>
    ELSE IF \A j \in i..(i + 3) : IsDigit(s[j]) THEN SubSeq(s, i, i + 3)
    ELSE SearchYear(s, i + 1)

\* extract_age_from_born with no lower limit on the year.
ExtractAgeNoFloor(born, this_year) ==
    LET m == SearchYear(born, 1)
    IN  IF m = <<>> THEN <<>>
        ELSE IF ToInt(m) > this_year THEN <<>>
        ELSE Str(this_year - ToInt(m))

\* extract_age_from_born(born_text), the clock's year being this_year
extract_age_from_born(born, this_year) ==
    LET m == SearchYear(born, 1)
    IN  IF m = <<>> THEN <<>>
        ELSE IF ToInt(m) < 1900 \/ ToInt(m) > this_year THEN <<>>
        ELSE Str(this_year - ToInt(m))

\* What a "Born" value is made of: years inside and outside the accepted
\* range, shorter runs of digits, and text.
BornPieces == {<<"1", "8", "5", "0">>, <<"1", "9", "0", "0">>,
               <<"2", "0", "0", "1">>, <<"2", "0", "2", "6">>,
               <<"2", "0", "2", "7">>, <<"2", "0", "9", "9">>,
               <<"5">>, <<"1", "2">>, <<" ">>, <<"a", "g", "e">>}

RECURSIVE Concat(_)
Concat(q) == IF q = <<>> THEN <<>> ELSE Head(q) \o Concat(Tail(q))

BornTexts == {Concat(q) : q \in UNION {[1..m -> BornPieces] : m \in 0..MaxBorn}}

\* The years the clock may show while the program runs.
UtcYears == {2026, 2027}

ExtractAge ==
    /\ apc = "input"
    /\ age' = extract_age_from_born(born_text, utc_year)
    /\ apc' = "returned"
    /\ UNCHANGED <<born_text, utc_year>>
    /\ UNCHANGED nonAgeVars

\* extract_age_from_born at rest, in the specifications that do not run it.
AgeOff ==
    /\ born_text = <<>>
    /\ utc_year = 0
    /\ apc = "off"
    /\ age = <<>>

AgeStart ==
    /\ born_text \in BornTexts
    /\ utc_year \in UtcYears
    /\ apc = "input"
    /\ age = <<>>

----------------------------------------------------------------------------
(* extract_players_from_espn_html of build_ipl_auction_dataset.py. The page  *)
(* is the sequence of what the two heuristics read from it, in page order:   *)
(* the strings captured by the "name" pattern and the table rows with the    *)
(* stripped texts of their cells. Names are sequences of characters.         *)

\* ord() of the characters of the model
Ord(c) ==
    IF c = " " THEN 32
    ELSE IF c = "9" THEN 57
    ELSE IF c = "A" THEN 65
    ELSE IF c = "B" THEN 66
    ELSE IF c = "I" THEN 73
    ELSE IF c = "a" THEN 97
    ELSE IF c = "b" THEN 98
    ELSE IF c = "i" THEN 105
    ELSE IF c = "l" THEN 108
    ELSE 112

UpperLetters == {"A", "B", "I"}
LowerLetters == {"a", "b", "i", "l", "p"}

\* str.isspace on one character
IsSpace(c) == c \in {" ", "\n", "\t"}

\* a < b on strings
RECURSIVE StrLess(_, _)
StrLess(a, b) ==
    IF b = <<>> THEN FALSE
    ELSE IF a = <<>> THEN TRUE
    ELSE IF Head(a) # Head(b) THEN Ord(Head(a)) < Ord(Head(b))
    ELSE StrLess(Tail(a), Tail(b))

\* sorted(S) for a set of strings
RECURSIVE Sorted(_)
Sorted(S) ==
    IF S = {} THEN <<>>
    ELSE LET m == CHOOSE a \in S : \A b \in S : b = a \/ StrLess(a, b)
         IN  <<m>> \o Sorted(S \ {m})

\* str.split(): words is the list so far, w the word being read.
RECURSIVE SplitFrom(_, _, _, _)
SplitFrom(s, i, words, w) ==
    IF i > Len(s) THEN (IF w = <<>> THEN words ELSE Append(words, w))
    ELSE IF IsSpace(s[i])
         THEN SplitFrom(s, i + 1, IF w = <<>> THEN words ELSE Append(words, w), <<>>)
         ELSE SplitFrom(s, i + 1, words, Append(w, s[i]))

Split(s) == SplitFrom(s, 1, <<>>, <<>>)

\* str.strip()
RECURSIVE Strip(_)
Strip(s) ==
    IF s = <<>> THEN s
    ELSE IF IsSpace(Head(s)) THEN Strip(Tail(s))
    ELSE IF IsSpace(s[Len(s)]) THEN Strip(SubSeq(s, 1, Len(s) - 1))
    ELSE s

\* str.startswith
StartsWith(s, prefix) ==
    Len(s) >= Len(prefix) /\ SubSeq(s, 1, Len(prefix)) = prefix

\* Line 81: the filter of the script-fragment heuristic (of the prefixes
\* "ipl" and "auction" the names of the model can only start with the first).
IsScriptPlayer(n) ==
    Len(Split(n)) >= 2 /\ ~StartsWith(Lower(n), <<"i", "p", "l">>)

\* Line 96: the test of a table cell.
IsNameCell(cell) ==
    /\ Len(cell) >= 3
    /\ cell[1] \in UpperLetters
    /\ \A i \in 2..Len(cell) :
          cell[i] \in UpperLetters \cup LowerLetters \cup {".", "'", " ", "-"}
    /\ Len(Split(cell)) <= 4

\* Lines 94-98: the first cell of a row that passes the test, <<>> for none.
RECURSIVE MaybeName(_)
MaybeName(tds) ==
    IF tds = <<>> THEN <<>>
    ELSE IF IsNameCell(Head(tds)) THEN Head(tds)
    ELSE MaybeName(Tail(tds))

\* Lines 75-82: the names of the script fragments, as a set, sorted, filtered.
ScriptPlayers(doc) ==
    LET name_candidates == {doc[i].name : i \in {j \in 1..Len(doc) : doc[j].kind = "script"}}
    IN  SelectSeq([i \in 1..Len(Sorted(name_candidates)) |->
                      [name |-> Strip(Sorted(name_candidates)[i]), ipl_team |-> "",
                       keep |-> IsScriptPlayer(Sorted(name_candidates)[i])]],
                  LAMBDA p : p.keep)

\* Lines 85-100: the table fallback.
RECURSIVE TablePlayers(_)
TablePlayers(doc) ==
    IF doc = <<>> THEN <<>>
    ELSE IF Head(doc).kind = "row" /\ MaybeName(Head(doc).cells) # <<>>
         THEN <<[name |-> MaybeName(Head(doc).cells), ipl_team |-> ""]>>
              \o TablePlayers(Tail(doc))
         ELSE TablePlayers(Tail(doc))

\* Lines 103-113: the deduplication on the stripped, lower-cased name.
RECURSIVE Dedup(_, _, _)
Dedup(ps, seen, out) ==
    IF ps = <<>> THEN out
    ELSE LET k == Lower(Strip(Head(ps).name))
         IN  IF k # <<>> /\ k \notin seen
             THEN Dedup(Tail(ps), seen \cup {k}, Append(out, Head(ps)))
             ELSE Dedup(Tail(ps), seen, out)

extract_players_from_espn_html(doc) ==
    LET fromScript == [i \in 1..Len(ScriptPlayers(doc)) |->
                          [name |-> ScriptPlayers(doc)[i].name, ipl_team |-> ""]]
        ps == IF fromScript # <<>> THEN fromScript ELSE TablePlayers(doc)
    IN  Dedup(ps, {}, <<>>)

\* What a listing page may hold.
Fragment(n) == [kind |-> "script", name |-> n, cells |-> <<>>]
Row(tds) == [kind |-> "row", name |-> <<>>, cells |-> tds]

PageItems ==
    {Fragment(<<"B", " ", "a">>), Fragment(<<"A", " ", "b">>),
     Fragment(<<"a", " ", "b">>), Fragment(<<" ", "A", " ", "b">>),
     Fragment(<<"A", "b">>), Fragment(<<"I", "p", "l", " ", "a">>),
     Row(<<>>), Row(<<<<"B", " ", "a">>>>), Row(<<<<"A", " ", "b">>>>),
     Row(<<<<"A", " ", "B">>>>), Row(<<<<"9">>, <<"A", " ", "b">>>>)}

ExtractPlayers ==
    /\ epc = "input"
    /\ listed' = extract_players_from_espn_html(html)
    /\ epc' = "returned"
    /\ UNCHANGED html
    /\ UNCHANGED nonListingVars

\* extract_players_from_espn_html at rest.
ListingOff ==
    /\ html = <<>>
    /\ epc = "off"
    /\ listed = <<>>

ListingStart ==
    /\ html \in UNION {[1..m -> PageItems] : m \in 0..MaxItems}
    /\ epc = "input"
    /\ listed = <<>>

----------------------------------------------------------------------------
(* wrap_text of build_free_source_pdfs.py and draw_wrapped of                *)
(* build_ipl_auction_dataset.py. Lengths are in thousandths of a point.      *)

\* The leading draw_wrapped and write_pdf move down by after a line.
LINE_STEP == 14000

\* Width of one character in Helvetica at 10 pt.
CharWidth(c) ==
    IF c = "i" THEN 2220
    ELSE IF c = "m" THEN 8330
    ELSE 2780

\* c.stringWidth(s, "Helvetica", 10)
RECURSIVE stringWidth(_)
stringWidth(s) == IF s = <<>> THEN 0 ELSE CharWidth(Head(s)) + stringWidth(Tail(s))

\* The loop of wrap_text from word i on, and the final append.
RECURSIVE WrapFrom(_, _, _, _, _)
WrapFrom(words, i, current, ls, width) ==
    IF i > Len(words) THEN Append(ls, current)
    ELSE LET candidate == current \o <<" ">> \o words[i]
         IN  IF stringWidth(candidate) <= width
             THEN WrapFrom(words, i + 1, candidate, ls, width)
             ELSE WrapFrom(words, i + 1, words[i], Append(ls, current), width)

\* wrap_text without the append after the loop.
WrapTextNoFlush(t, width) ==
    IF Split(t) = <<>> THEN <<<<>>>>
    ELSE SubSeq(WrapFrom(Split(t), 2, Split(t)[1], <<>>, width), 1,
                Len(WrapFrom(Split(t), 2, Split(t)[1], <<>>, width)) - 1)

\* wrap_text(text, c, max_width)
wrap_text(t, width) ==
    IF Split(t) = <<>> THEN <<<<>>>>
    ELSE WrapFrom(Split(t), 2, Split(t)[1], <<>>, width)

\* The loop of draw_wrapped from word i on, and the final drawString.
RECURSIVE DrawFrom(_, _, _, _, _, _)
DrawFrom(words, i, line, y0, ds, width) ==
    IF i > Len(words)
    THEN [drawn |-> Append(ds, [y |-> y0, text |-> line]), y |-> y0 - LINE_STEP]
    ELSE LET cand == line \o <<" ">> \o words[i]
         IN  IF stringWidth(cand) <= width
             THEN DrawFrom(words, i + 1, cand, y0, ds, width)
             ELSE DrawFrom(words, i + 1, words[i], y0 - LINE_STEP,
                           Append(ds, [y |-> y0, text |-> line]), width)

\* draw_wrapped(c, text, x, y, width): what it draws and the y it returns
draw_wrapped(t, y0, width) ==
    IF Split(t) = <<>> THEN [drawn |-> <<>>, y |-> y0]
    ELSE DrawFrom(Split(t), 2, Split(t)[1], y0, <<>>, width)

TextChars == {"i", "m", " ", "\n"}

\* Width budgets: none, one wide letter and a little, three wide letters.
Widths == {0, 10000, 25000}

\* The y draw_wrapped is called with.
StartY == 100000

WrapText ==
    /\ wpc = "input"
    /\ wrapper = "wrap_text"
    /\ lines' = wrap_text(text, max_width)
    /\ wpc' = "returned"
    /\ UNCHANGED <<wrapper, text, max_width, drawn, y_after>>
    /\ UNCHANGED nonWrapVars

DrawWrapped ==
    /\ wpc = "input"
    /\ wrapper = "draw_wrapped"
    /\ drawn' = draw_wrapped(text, StartY, max_width).drawn
    /\ y_after' = draw_wrapped(text, StartY, max_width).y
    /\ wpc' = "returned"
    /\ UNCHANGED <<wrapper, text, max_width, lines>>
    /\ UNCHANGED nonWrapVars

\* The two functions at rest.
WrapOff ==
    /\ wrapper = "off"
    /\ text = <<>>
    /\ max_width = 0
    /\ wpc = "off"
    /\ lines = <<>>
    /\ drawn = <<>>
    /\ y_after = 0

WrapStart ==
    /\ wrapper \in {"wrap_text", "draw_wrapped"}
    /\ text \in UNION {[1..m -> TextChars] : m \in 0..MaxText}
    /\ max_width \in Widths
    /\ wpc = "input"
    /\ lines = <<>>
    /\ drawn = <<>>
    /\ y_after = StartY

----------------------------------------------------------------------------
(* sanitize_for_pdf of build_ipl_auction_dataset.py. Characters are code     *)
(* points: 9 tab, 10 newline, 32 space, 97 a, 101 e, 127 DEL, 160 no-break   *)
(* space, 233 e with acute, 769 combining acute, 8364 euro sign.             *)

\* unicodedata.normalize("NFKD", ch) for one character
Decompose(ch) ==
    IF ch = 233 THEN <<101, 769>>
    ELSE IF ch = 160 THEN <<32>>
    ELSE <<ch>>

\* unicodedata.normalize("NFKD", t)
NFKD(t) == Concat([i \in 1..Len(t) |-> Decompose(t[i])])

\* str.isprintable for one character: not a control character and, of the
\* separators, only the space.
IsPrintable(ch) == ~(ch < 32) /\ ~(ch >= 127 /\ ch <= 160)

\* Line 325 without the exemption of the newline.
KeepCharNoNewline(ch) == ch >= 32 /\ IsPrintable(ch)

\* Line 325: ch == "\n" or (ord(ch) >= 32 and ch.isprintable())
KeepChar(ch) == ch = 10 \/ (ch >= 32 /\ IsPrintable(ch))

\* .encode("ascii", "ignore").decode("ascii") for one character
IsAscii(ch) == ch < 128

\* \s on what is left after the two filters
IsWhitespace(ch) == ch = 32 \/ (ch >= 9 /\ ch <= 13) \/ (ch >= 28 /\ ch <= 31)

\* re.sub(r"\s+", " ", t)
RECURSIVE CollapseWhitespace(_)
CollapseWhitespace(t) ==
    IF t = <<>> THEN <<>>
    ELSE IF IsWhitespace(Head(t))
         THEN (IF Len(t) > 1 /\ IsWhitespace(t[2])
               THEN CollapseWhitespace(Tail(t))
               ELSE <<32>> \o CollapseWhitespace(Tail(t)))
         ELSE <<Head(t)>> \o CollapseWhitespace(Tail(t))

\* str.strip() on code points
RECURSIVE StripWhitespace(_)
StripWhitespace(t) ==
    IF t = <<>> THEN t
    ELSE IF IsWhitespace(Head(t)) THEN StripWhitespace(Tail(t))
    ELSE IF IsWhitespace(t[Len(t)]) THEN StripWhitespace(SubSeq(t, 1, Len(t) - 1))
    ELSE t

\* sanitize_for_pdf(text)
sanitize_for_pdf(t) ==
    IF t = <<>> THEN <<>>
    ELSE StripWhitespace(CollapseWhitespace(
             SelectSeq(SelectSeq(NFKD(t), KeepChar), IsAscii)))

RawChars == {9, 10, 32, 97, 127, 160, 233, 8364}

Sanitize ==
    /\ cpc = "input"
    /\ sanitized' = sanitize_for_pdf(raw_text)
    /\ cpc' = "returned"
    /\ UNCHANGED raw_text
    /\ UNCHANGED nonSanitizeVars

\* sanitize_for_pdf at rest.
SanitizeOff ==
    /\ raw_text = <<>>
    /\ cpc = "off"
    /\ sanitized = <<>>

SanitizeStart ==
    /\ raw_text \in UNION {[1..m -> RawChars] : m \in 0..MaxRaw}
    /\ cpc = "input"
    /\ sanitized = <<>>

----------------------------------------------------------------------------
(* The page layout of write_pdf of build_free_source_pdfs.py and of          *)
(* write_pdf of build_ipl_auction_dataset.py. A body is given by the number  *)
(* of lines it wraps to. Lengths are in thousandths of a point, rounded;     *)
(* the cursor never comes within a hundredth of a point of a threshold, so   *)
(* the comparisons are those of the floating-point program.                  *)

\* reportlab.lib.pagesizes.A4[1] and reportlab.lib.units.cm
A4_HEIGHT == 841890
CM == 28346

\* y = height - 2 * cm
TopY == A4_HEIGHT - 2 * CM

\* build_free_source_pdfs.write_pdf: the steps of its cursor
FREE_TITLE_STEP == 22000
FREE_HEADING_STEP == 14000
line_h == 14000
FREE_SECTION_GAP == 8000

\* build_ipl_auction_dataset.write_pdf: the steps of its cursor
IPL_TITLE_STEP == 20000
IPL_BASICS == 7
IPL_BASIC_STEP == 14000
IPL_HEADING_STEP == 16000
IPL_BLOCK_GAP == 8000
IPL_SOURCE_STEP == 14000

DrawString(kind, yy, pg, n) == [kind |-> kind, y |-> yy, page |-> pg, ln |-> n]

NoDraw == DrawString("none", 0, 0, 0)

\* The test before a heading, with the threshold of the body lines.
HeadingBreakLow(yy) == 2 * yy < 5 * CM

\* Line 203: if y < 3 * cm, before a heading
HeadingBreak(yy) == yy < 3 * CM

\* Line 214: if y < 2.5 * cm, before a body line
BodyBreak(yy) == 2 * yy < 5 * CM

\* Line 425: if y < 3 * cm, after a stats item
StatsBreak(yy) == yy < 3 * CM

\* Lines 197-199: the title.
FreeTitle ==
    /\ renderer = "free"
    /\ rpc = "title"
    /\ last_draw' = DrawString("title", y, page, 0)
    /\ y' = y - FREE_TITLE_STEP
    /\ rpc' = "section"
    /\ UNCHANGED <<renderer, sections, player, page, sec, ln, heading_draw>>
    /\ UNCHANGED nonRenderVars

\* Lines 203-210: the page test and the heading of the next section.
FreeHeading ==
    /\ renderer = "free"
    /\ rpc = "section"
    /\ sec <= Len(sections)
    /\ LET y0 == IF HeadingBreak(y) THEN TopY ELSE y
           pg == IF HeadingBreak(y) THEN page + 1 ELSE page
       IN  /\ last_draw' = DrawString("heading", y0, pg, 0)
           /\ heading_draw' = DrawString("heading", y0, pg, 0)
           /\ y' = y0 - FREE_HEADING_STEP
           /\ page' = pg
    /\ ln' = 1
    /\ rpc' = "body"
    /\ UNCHANGED <<renderer, sections, player, sec>>
    /\ UNCHANGED nonRenderVars

\* Lines 213-219: the page test and the next line of the body.
FreeBodyLine ==
    /\ renderer = "free"
    /\ rpc = "body"
    /\ ln <= sections[sec]
    /\ LET y0 == IF BodyBreak(y) THEN TopY ELSE y
           pg == IF BodyBreak(y) THEN page + 1 ELSE page
       IN  /\ last_draw' = DrawString("body", y0, pg, ln)
           /\ y' = y0 - line_h
           /\ page' = pg
    /\ ln' = ln + 1
    /\ UNCHANGED <<renderer, sections, player, rpc, sec, heading_draw>>
    /\ UNCHANGED nonRenderVars

\* Line 220: the gap after a section.
FreeEndSection ==
    /\ renderer = "free"
    /\ rpc = "body"
    /\ ln > sections[sec]
    /\ y' = y - FREE_SECTION_GAP
    /\ sec' = sec + 1
    /\ rpc' = "section"
    /\ UNCHANGED <<renderer, sections, player, page, ln, last_draw, heading_draw>>
    /\ UNCHANGED nonRenderVars

\* Line 222: c.save()
FreeSave ==
    /\ renderer = "free"
    /\ rpc = "section"
    /\ sec > Len(sections)
    /\ rpc' = "saved"
    /\ UNCHANGED <<renderer, sections, player, y, page, sec, ln, last_draw, heading_draw>>
    /\ UNCHANGED nonRenderVars

\* Lines 381-383: the title.
IplTitle ==
    /\ renderer = "ipl"
    /\ rpc = "title"
    /\ last_draw' = DrawString("title", y, page, 0)
    /\ y' = y - IPL_TITLE_STEP
    /\ ln' = 1
    /\ rpc' = "basics"
    /\ UNCHANGED <<renderer, sections, player, page, sec, heading_draw>>
    /\ UNCHANGED nonRenderVars

\* Lines 402-405: the next of the seven basic lines, drawn at yy.
IplBasicLine ==
    /\ renderer = "ipl"
    /\ rpc = "basics"
    /\ ln <= IPL_BASICS
    /\ last_draw' = DrawString("basic", y - (ln - 1) * IPL_BASIC_STEP, page, ln)
    /\ ln' = ln + 1
    /\ UNCHANGED <<renderer, sections, player, rpc, y, page, sec, heading_draw>>
    /\ UNCHANGED nonRenderVars

\* Lines 407-410: the "Career Summary" heading.
IplSummaryHeading ==
    /\ renderer = "ipl"
    /\ rpc = "basics"
    /\ ln > IPL_BASICS
    /\ last_draw' = DrawString("heading", y - 7 * CM, page, 0)
    /\ heading_draw' = DrawString("heading", y - 7 * CM, page, 0)
    /\ y' = y - 7 * CM - IPL_HEADING_STEP
    /\ ln' = 1
    /\ rpc' = "extract"
    /\ UNCHANGED <<renderer, sections, player, page, sec>>
    /\ UNCHANGED nonRenderVars

\* Line 412, draw_wrapped: the next line of the extract.
IplExtractLine ==
    /\ renderer = "ipl"
    /\ rpc = "extract"
    /\ ln <= player.extract
    /\ last_draw' = DrawString("body", y, page, ln)
    /\ y' = y - LINE_STEP
    /\ ln' = ln + 1
    /\ UNCHANGED <<renderer, sections, player, rpc, page, sec, heading_draw>>
    /\ UNCHANGED nonRenderVars

\* Lines 414-419: the gap and, the stats not being empty, their heading.
IplStatsHeading ==
    /\ renderer = "ipl"
    /\ rpc = "extract"
    /\ ln > player.extract
    /\ player.espn_stats # <<>>
    /\ last_draw' = DrawString("heading", y - IPL_BLOCK_GAP, page, 0)
    /\ heading_draw' = DrawString("heading", y - IPL_BLOCK_GAP, page, 0)
    /\ y' = y - IPL_BLOCK_GAP - IPL_HEADING_STEP
    /\ sec' = 1
    /\ ln' = 1
    /\ rpc' = "stats"
    /\ UNCHANGED <<renderer, sections, player, page>>
    /\ UNCHANGED nonRenderVars

\* Lines 414-416: the gap, the stats being empty.
IplNoStats ==
    /\ renderer = "ipl"
    /\ rpc = "extract"
    /\ ln > player.extract
    /\ player.espn_stats = <<>>
    /\ y' = y - IPL_BLOCK_GAP
    /\ rpc' = "source"
    /\ UNCHANGED <<renderer, sections, player, page, sec, ln, last_draw, heading_draw>>
    /\ UNCHANGED nonRenderVars

\* Lines 424-428: the next line of a stats item and, after its last line,
\* the page test.
IplStatsLine ==
    /\ renderer = "ipl"
    /\ rpc = "stats"
    /\ sec <= Len(player.espn_stats)
    /\ last_draw' = DrawString("body", y, page, ln)
    /\ IF ln < player.espn_stats[sec]
       THEN /\ y' = y - LINE_STEP
            /\ ln' = ln + 1
            /\ UNCHANGED <<page, sec>>
       ELSE /\ y' = IF StatsBreak(y - LINE_STEP) THEN TopY ELSE y - LINE_STEP
            /\ page' = IF StatsBreak(y - LINE_STEP) THEN page + 1 ELSE page
            /\ sec' = sec + 1
            /\ ln' = 1
    /\ UNCHANGED <<renderer, sections, player, rpc, heading_draw>>
    /\ UNCHANGED nonRenderVars

\* Line 429: the gap after the stats.
IplEndStats ==
    /\ renderer = "ipl"
    /\ rpc = "stats"
    /\ sec > Len(player.espn_stats)
    /\ y' = y - IPL_BLOCK_GAP
    /\ rpc' = "source"
    /\ UNCHANGED <<renderer, sections, player, page, sec, ln, last_draw, heading_draw>>
    /\ UNCHANGED nonRenderVars

\* Lines 431-433: the "Source" heading.
IplSourceHeading ==
    /\ renderer = "ipl"
    /\ rpc = "source"
    /\ last_draw' = DrawString("heading", y, page, 0)
    /\ heading_draw' = DrawString("heading", y, page, 0)
    /\ y' = y - IPL_SOURCE_STEP
    /\ ln' = 1
    /\ rpc' = "sourceline"
    /\ UNCHANGED <<renderer, sections, player, page, sec>>
    /\ UNCHANGED nonRenderVars

\* Line 438, draw_wrapped: the next line of the source line.
IplSourceLine ==
    /\ renderer = "ipl"
    /\ rpc = "sourceline"
    /\ ln <= player.source
    /\ last_draw' = DrawString("body", y, page, ln)
    /\ y' = y - LINE_STEP
    /\ ln' = ln + 1
    /\ UNCHANGED <<renderer, sections, player, rpc, page, sec, heading_draw>>
    /\ UNCHANGED nonRenderVars

\* Line 439: c.save()
IplSave ==
    /\ renderer = "ipl"
    /\ rpc = "sourceline"
    /\ ln > player.source
    /\ rpc' = "saved"
    /\ UNCHANGED <<renderer, sections, player, y, page, sec, ln, last_draw, heading_draw>>
    /\ UNCHANGED nonRenderVars

\* The numbers of lines a body may wrap to: wrap_text returns at least one.
BodyLines == {1, 20, 25, 26}

\* The numbers of lines the extract and the source line may wrap to.
ExtractLines == {1, 3, 40}
SourceLines == {1, 2}

NoPlayer == [extract |-> 0, espn_stats |-> <<>>, source |-> 0]

\* The two write_pdf at rest.
RenderOff ==
    /\ renderer = "off"
    /\ sections = <<>>
    /\ player = NoPlayer
    /\ rpc = "off"
    /\ y = 0
    /\ page = 0
    /\ sec = 0
    /\ ln = 0
    /\ last_draw = NoDraw
    /\ heading_draw = NoDraw

RenderStart ==
    /\ renderer \in {"free", "ipl"}
    /\ IF renderer = "free"
       THEN /\ sections \in UNION {[1..m -> BodyLines] : m \in 0..MaxSections}
            /\ player = NoPlayer
       ELSE /\ sections = <<>>
            /\ player \in [extract : ExtractLines,
                           espn_stats : UNION {[1..m -> BodyLines] : m \in 0..MaxSections},
                           source : SourceLines]
    /\ rpc = "title"
    /\ y = TopY
    /\ page = 1
    /\ sec = 1
    /\ ln = 1
    /\ last_draw = NoDraw
    /\ heading_draw = NoDraw

\* The text and layout functions at rest.
TextOff == AgeOff /\ ListingOff /\ WrapOff /\ SanitizeOff /\ RenderOff

----------------------------------------------------------------------------
(* Specifications *)

HttpInit == HttpStart /\ BatchOff /\ FieldsOff /\ TextOff

HttpNext ==
    \/ CallGet
    \/ GetAttempt
    \/ CallGetJson
    \/ GetJsonAttempt
    \/ GetJsonExhausted

SpecHttp == HttpInit /\ [][HttpNext]_vars

BatchInit == HttpOff /\ BatchStart /\ FieldsOff /\ TextOff

BatchNext ==
    \/ LoadExisting
    \/ IplFetchWiki
    \/ IplEspn
    \/ IplDownloadImage
    \/ IplWritePdf
    \/ IplRecord
    \/ Persist
    \/ FreeFetchWiki
    \/ FreeWikidata
    \/ FreeWritePdf

SpecBatch == BatchInit /\ [][BatchNext]_vars

FieldsInit == HttpOff /\ BatchOff /\ FieldsStart /\ TextOff

FieldsNext == DeriveBasicFields

SpecFields == FieldsInit /\ [][FieldsNext]_vars

AgeInit == HttpOff /\ BatchOff /\ FieldsOff /\ AgeStart /\ ListingOff /\ WrapOff /\ SanitizeOff
    /\ RenderOff

AgeNext == ExtractAge

SpecAge == AgeInit /\ [][AgeNext]_vars

ListingInit == HttpOff /\ BatchOff /\ FieldsOff /\ AgeOff /\ ListingStart /\ WrapOff /\ SanitizeOff
    /\ RenderOff

ListingNext == ExtractPlayers

SpecListing == ListingInit /\ [][ListingNext]_vars

WrapInit == HttpOff /\ BatchOff /\ FieldsOff /\ AgeOff /\ ListingOff /\ WrapStart /\ SanitizeOff
    /\ RenderOff

WrapNext ==
    \/ WrapText
    \/ DrawWrapped

SpecWrap == WrapInit /\ [][WrapNext]_vars

SanitizeInit ==
    HttpOff /\ BatchOff /\ FieldsOff /\ AgeOff /\ ListingOff /\ WrapOff /\ SanitizeStart
    /\ RenderOff

SanitizeNext == Sanitize

SpecSanitize == SanitizeInit /\ [][SanitizeNext]_vars

RenderInit ==
    HttpOff /\ BatchOff /\ FieldsOff /\ AgeOff /\ ListingOff /\ WrapOff /\ SanitizeOff
    /\ RenderStart

RenderNext ==
    \/ FreeTitle
    \/ FreeHeading
    \/ FreeBodyLine
    \/ FreeEndSection
    \/ FreeSave
    \/ IplTitle
    \/ IplBasicLine
    \/ IplSummaryHeading
    \/ IplExtractLine
    \/ IplStatsHeading
    \/ IplNoStats
    \/ IplStatsLine
    \/ IplEndStats
    \/ IplSourceHeading
    \/ IplSourceLine
    \/ IplSave

SpecRender == RenderInit /\ [][RenderNext]_vars

----------------------------------------------------------------------------
(* Claims about the HTTP clients *)

StatusesOf(os) == [i \in 1..Len(os) |-> os[i].status]

\* Time slept between attempt i and attempt i + 1 of the current call.
DelayAfter(i) == backoffs[i] + waits[i + 1]

CallEnded == hpc \in {"returned", "raised"}

\* C1: in get(), when the first three attempts of a call are answered 503 the
\* call issues no fifth request, and when the fourth is answered 200 the call
\* returns that response and the delays slept between successive attempts
\* are strictly increasing.
C1_RetryThenSuccess ==
    (/\ client = "get"
     /\ Len(outcomes) >= 3
     /\ \A i \in 1..3 : outcomes[i].status = 503)
        => /\ Len(outcomes) <= 4
           /\ (Len(outcomes) = 4 /\ outcomes[4].status = 200)
                => /\ hpc = "returned"
                   /\ result = outcomes[4]
                   /\ \A i \in 1..2 : DelayAfter(i) < DelayAfter(i + 1)
                   /\ \A i \in 1..3 : DelayAfter(i) > 0

C1_Witness ==
    /\ client = "get"
    /\ hpc = "returned"
    /\ StatusesOf(outcomes) = <<503, 503, 503, 200>>
    /\ result.status = 200

\* The retryable statuses as the specification lists them.
SpecRetryable == {429, 403, 500, 502, 503, 504}

FatalStatus(status) ==
    /\ status # TransportExc
    /\ ~(status >= 200 /\ status < 300)
    /\ status \notin SpecRetryable

\* C2: in both clients, a response whose status is neither 2xx nor retryable
\* (404) makes the call fail at once: the call has raised, nothing was slept
\* after that response and no further request follows it.
C2_FatalStatusFailsImmediately ==
    \A i \in 1..Len(outcomes) :
        FatalStatus(outcomes[i].status)
            => /\ i = Len(outcomes)
               /\ hpc = "raised"
               /\ backoffs[i] = 0

AttemptCeiling == IF client = "get" THEN retries ELSE JSON_ATTEMPTS

RetryableOutcome(o) ==
    \/ o.status = TransportExc
    \/ o.status \in (IF client = "get" THEN RetryableGet ELSE RetryableJson)

\* C3: in both clients, a call that used up its attempt ceiling with every
\* attempt ending in a retryable outcome has raised (it returned nothing), and
\* the exception carries the last underlying cause, never None, and the URL.
C3_ExhaustionCarriesCause ==
    (/\ CallEnded
     /\ Len(outcomes) = AttemptCeiling
     /\ \A i \in 1..Len(outcomes) : RetryableOutcome(outcomes[i]))
        => /\ hpc = "raised"
           /\ result = NoVal
           /\ err.cause # None
           /\ err.url

\* C4: any two consecutive requests of get() are issued at least
\* REQUEST_INTERVAL_SECONDS apart.
C4_RequestsSpaced ==
    (client = "get" /\ prevIssue >= 0)
        => lastIssue - prevIssue >= REQUEST_INTERVAL_SECONDS


----------------------------------------------------------------------------
(* Claims about the batch loops and the metadata store *)

\* The store the run found, as a mapping (a missing or unreadable one holds nothing).
PriorData == IF priorFile.kind = "mapping" THEN priorFile.data ELSE <<>>

OkLines == {k \in 1..Len(log) : log[k].line = "OK"}

\* The names this run produced a record for.
Produced == {log[k].record.name : k \in OkLines}

\* The last record this run produced for name n.
LastRecord(n) ==
    LET ks == {k \in OkLines : log[k].record.name = n}
    IN  log[CHOOSE k \in ks : \A m \in ks : m <= k].record

\* C5: after a run of the IPL main with at least one success, the store holds
\* exactly the prior names and the produced names; each produced name maps to
\* the run's record, the whole prior entry replaced, and each prior name not
\* produced keeps its prior entry.
C5_UpsertOverrides ==
    (program = "ipl" /\ bpc = "done" /\ Produced # {})
        => /\ file.kind = "mapping"
           /\ writes = 1
           /\ DOMAIN file.data = DOMAIN PriorData \cup Produced
           /\ \A n \in Produced : file.data[n] = LastRecord(n)
           /\ \A n \in DOMAIN PriorData \ Produced : file.data[n] = PriorData[n]

C5_Witness ==
    /\ program = "ipl"
    /\ bpc = "done"
    /\ DOMAIN PriorData = {"A"}
    /\ Produced = {"B"}
    /\ DOMAIN file.data = {"A", "B"}
    /\ file.data["A"] = PriorRecord("A")

\* C6: a run of the IPL main in which no subject succeeded leaves the store
\* as it found it and writes nothing, whatever the prior state of the store.
C6_NoSuccessLeavesStore ==
    (program = "ipl" /\ bpc = "done" /\ Produced = {})
        => /\ file = priorFile
           /\ writes = 0

StageFailed(s) ==
    \/ s.wiki \in {"missing", "query_fail", "parse_fail"}
    \/ s.lookup = "fail"
    \/ s.wikidata = "fail"
    \/ s.render = "fail"

C7_Inv ==
    program \in {"ipl", "free"}
        => /\ \A k \in 1..Len(log) :
                /\ log[k].idx = k
                /\ StageFailed(log[k].subj) => log[k].line = "ERROR"
           /\ Len(log) = idx - 1
           /\ bpc \in {"persist", "done"} => Len(log) = Len(players)

C7_Step ==
    (Len(log') = Len(log) + 1 /\ log'[Len(log')].line = "ERROR")
        => /\ metadata' = metadata
           /\ pdfs' = pdfs
           /\ success_count' = success_count
           /\ SubSeq(log', 1, Len(log)) = log
           /\ idx' = idx + 1

\* C7: in both batch loops a failing subject is reported with an ERROR line
\* and aborts only itself: the status lines are those of subjects 1, 2, ... in
\* list order, one each, all of them once the loop is over, and the step that
\* reports a failure changes no record or document of an earlier subject.
C7_FailureAbortsOnlySubject == []C7_Inv /\ [][C7_Step]_vars

C7_Witness ==
    /\ bpc = "done"
    /\ Len(log) = 2
    /\ log[1].line = "ERROR"
    /\ log[2].line = "OK"

\* C8: in both pipelines, once the Wikipedia source has succeeded, a failed
\* optional source (Wikidata; ESPN) does not abort the subject: unless the
\* rendering itself fails, the document is written and the subject reported
\* OK, with the optional fields absent.
C8_OptionalFailureTolerated ==
    \A k \in 1..Len(log) :
        (/\ log[k].subj.wiki = "ok"
         /\ log[k].subj.espn = "fail" \/ log[k].subj.wikidata = "fail"
         /\ log[k].subj.render # "fail")
            => /\ log[k].line = "OK"
               /\ log[k].subj.render = "ok"
               /\ program = "ipl" => log[k].record.espn_stats = "none"

\* C9: in the IPL pipeline, a subject whose image could not be obtained (the
\* lookup failed, the download failed, or there is no image) is still
\* resolved: unless the rendering itself fails, it is reported OK, rendered
\* text-only, and its record holds an empty image path.
C9_ImageFailureTolerated ==
    \A k \in 1..Len(log) :
        (/\ program = "ipl"
         /\ log[k].subj.wiki = "ok"
         /\ log[k].subj.lookup \in {"fail", "none"} \/ log[k].subj.download = "fail"
         /\ log[k].subj.render # "fail")
            => /\ log[k].line = "OK"
               /\ log[k].subj.render = "ok"
               /\ log[k].record.image_path = ""

\* The entries of the store that were saved with no document of this run
\* for their name.
Undocumented == {n \in DOMAIN file.data : n \notin DOMAIN pdfs}

C17_Inv ==
    program = "ipl"
        => /\ \A n \in DOMAIN metadata :
                /\ n \in DOMAIN pdfs
                /\ metadata[n].pdf_path \in DOMAIN pdfs
           /\ success_count = Cardinality(OkLines)
           /\ \A k \in 1..Len(log) :
                /\ log[k].line = "OK" => log[k].subj.render = "ok"
                /\ log[k].subj.render = "fail" =>
                      log[k].line = "ERROR" /\ log[k].record = NoRecord
           /\ (bpc = "done" /\ writes > 0) =>
                \A n \in Undocumented :
                    n \in DOMAIN PriorData /\ file.data[n] = PriorData[n]

C17_Step ==
    (program = "ipl" /\ (metadata' # metadata \/ success_count' # success_count))
        => /\ spc = "record"
           /\ subj.render = "ok"
           /\ subj.name \in DOMAIN pdfs
           /\ DOMAIN metadata' = DOMAIN metadata \cup {subj.name}
           /\ success_count' = success_count + 1

\* C17: in the IPL main a subject's record enters the run's metadata, and is
\* counted as a success, only after write_pdf returned for it: every name this
\* run writes to the store has a document written earlier in the run, and a
\* subject whose rendering raised adds no metadata entry and no success.
C17_RecordAfterRender == []C17_Inv /\ [][C17_Step]_vars

\* One subject's rendering raised and another's succeeded: the store was
\* written with the second and without the first.
C17_Witness ==
    /\ program = "ipl"
    /\ bpc = "done"
    /\ writes = 1
    /\ \E k, m \in 1..Len(log) :
          /\ log[k].subj.render = "fail"
          /\ log[m].line = "OK"
          /\ log[k].subj.name \notin DOMAIN file.data
          /\ log[m].subj.name \in DOMAIN file.data

----------------------------------------------------------------------------
(* Claims about derive_basic_fields *)

ExactValues == {ValueOf(TeamKeys[j]) : j \in {i \in 1..Len(TeamKeys) : HasKey(infobox, TeamKeys[i])}}

RelaxedValues ==
    {infobox[i][2] : i \in {m \in 1..Len(infobox) :
        \E j \in 1..Len(TeamKeys) : Contains(Lower(TeamKeys[j]), Lower(infobox[m][1]))}}

\* C10: the team of derive_basic_fields is the hint when the hint is not
\* empty, whatever the infobox holds; with an empty hint it is the value of
\* an exact key when there is one, the value of a relaxed (case-insensitive
\* substring) match only when there is no exact key, and "" with neither.
C10_TeamPrecedence ==
    fpc = "derived"
        => /\ ipl_team # "" => current_team = ipl_team
           /\ (ipl_team = "" /\ ExactValues # {}) => current_team \in ExactValues
           /\ (ipl_team = "" /\ ExactValues = {} /\ RelaxedValues # {})
                => current_team \in RelaxedValues
           /\ (ipl_team = "" /\ ExactValues = {} /\ RelaxedValues = {})
                => current_team = ""

C10_Witness ==
    /\ fpc = "derived"
    /\ ipl_team = "KKR"
    /\ HasKey(infobox, KeyTeam)
    /\ HasKey(infobox, KeyTeams)
    /\ current_team = "KKR"

----------------------------------------------------------------------------
(* Claims about extract_age_from_born *)

\* The positions of born_text where four digits in a row start.
YearStarts ==
    {i \in 1..(Len(born_text) - 3) : \A j \in i..(i + 3) : IsDigit(born_text[j])}

\* The year token: the four digits at the first such position.
YearToken ==
    LET i == CHOOSE k \in YearStarts : \A l \in YearStarts : k <= l
    IN  1000 * DigitValue(born_text[i]) + 100 * DigitValue(born_text[i + 1])
        + 10 * DigitValue(born_text[i + 2]) + DigitValue(born_text[i + 3])

\* A non-negative integer in decimal: digits only, no sign, no leading zero.
WellFormedAge(a) ==
    /\ a # <<>>
    /\ \A i \in 1..Len(a) : IsDigit(a[i])
    /\ Len(a) > 1 => a[1] # "0"

\* C11: the age returned by extract_age_from_born is the empty string or the
\* decimal string of the current year minus the four-digit year token of the
\* text, the token lying between 1900 and the current year; a token outside
\* that range or a text without a token gives the empty string; a token 25
\* years back gives "25"; the result is never negative nor malformed.
C11_AgeFromBorn ==
    apc = "returned" =>
        /\ YearStarts = {} => age = <<>>
        /\ YearStarts # {} /\ (YearToken < 1900 \/ YearToken > utc_year) => age = <<>>
        /\ YearStarts # {} /\ YearToken >= 1900 /\ YearToken <= utc_year =>
              /\ WellFormedAge(age)
              /\ ToInt(age) = utc_year - YearToken
        /\ YearStarts # {} /\ YearToken = utc_year - 25 => age = <<"2", "5">>
        /\ age # <<>> => WellFormedAge(age)

\* A birth year 25 years back was turned into "25", and the text holds more
\* than the year.
C11_Witness ==
    /\ apc = "returned"
    /\ YearStarts # {}
    /\ YearToken = utc_year - 25
    /\ Len(born_text) > 4
    /\ age = <<"2", "5">>

----------------------------------------------------------------------------
(* Claims about extract_players_from_espn_html *)

\* The key two names are compared on.
NameKey(n) == Lower(Strip(n))

\* Whether the script fragments gave any player, so that the table is not read.
ScriptUsed ==
    \E i \in 1..Len(html) : html[i].kind = "script" /\ IsScriptPlayer(html[i].name)

\* The name item i of the page offers to the heuristic in use, <<>> for none.
Offered(i) ==
    IF ScriptUsed
    THEN (IF html[i].kind = "script" /\ IsScriptPlayer(html[i].name)
          THEN html[i].name ELSE <<>>)
    ELSE (IF html[i].kind = "row" THEN MaybeName(html[i].cells) ELSE <<>>)

\* The items of the page that offer a name of key k.
SeenAt(k) == {i \in 1..Len(html) : Offered(i) # <<>> /\ NameKey(Offered(i)) = k}

FirstSeen(k) == CHOOSE i \in SeenAt(k) : \A j \in SeenAt(k) : i <= j

----------------------------------------------------------------------------
(* Claims about wrap_text and draw_wrapped *)

\* " ".join(ls)
RECURSIVE JoinSpace(_)
JoinSpace(ls) ==
    IF ls = <<>> THEN <<>>
    ELSE IF Len(ls) = 1 THEN Head(ls)
    ELSE Head(ls) \o <<" ">> \o JoinSpace(Tail(ls))

\* The lines the function emitted, in order.
Emitted ==
    IF wrapper = "wrap_text" THEN lines
    ELSE [i \in 1..Len(drawn) |-> drawn[i].text]

\* C13: for every text and every width budget the emitted lines, joined by
\* single spaces, are the words of the text in their order, no word is split
\* or dropped (a word wider than the budget stands alone on its line), and
\* every emitted line is non-empty unless the text has no words.
C13_WrapLossless ==
    wpc = "returned" =>
        /\ JoinSpace(Emitted) = JoinSpace(Split(text))
        /\ Concat([i \in 1..Len(Emitted) |-> Split(Emitted[i])]) = Split(text)
        /\ Split(text) # <<>> => \A i \in 1..Len(Emitted) : Emitted[i] # <<>>
        /\ \A i \in 1..Len(Emitted) :
              stringWidth(Emitted[i]) > max_width => Len(Split(Emitted[i])) = 1

\* A word wider than the budget was emitted whole, between other lines.
C13_Witness ==
    /\ wpc = "returned"
    /\ Len(Emitted) >= 2
    /\ max_width > 0
    /\ \E i \in 1..Len(Emitted) :
          stringWidth(Emitted[i]) > max_width /\ Emitted[i] = <<"m", "m">>
    /\ \E i \in 1..Len(Emitted) : Len(Split(Emitted[i])) = 2

----------------------------------------------------------------------------
(* Claims about sanitize_for_pdf *)

\* Printable ASCII: space to tilde.
PrintableAscii(ch) == ch >= 32 /\ ch <= 126

Has(t, ch) == \E i \in 1..Len(t) : t[i] = ch

\* Only printable ASCII and newlines, whitespace runs collapsed to one space,
\* no whitespace at either end.
CleanText(t) ==
    /\ \A i \in 1..Len(t) : PrintableAscii(t[i]) \/ t[i] = 10
    /\ \A i \in 1..Len(t) : IsWhitespace(t[i]) => t[i] = 32
    /\ \A i \in 1..(Len(t) - 1) : ~(t[i] = 32 /\ t[i + 1] = 32)
    /\ t # <<>> => t[1] # 32 /\ t[Len(t)] # 32

\* A newline of the input that stands between two letters.
InnerNewline(t) ==
    \E i, j, k \in 1..Len(t) : i < j /\ j < k /\ t[i] = 97 /\ t[j] = 10 /\ t[k] = 97

\* C14: the text returned by sanitize_for_pdf holds only printable ASCII, no
\* control character but the newline, has every whitespace run collapsed to
\* one space and no whitespace at its ends, and the newlines of the input
\* are preserved in it.
C14_NewlinesPreserved ==
    cpc = "returned" =>
        /\ \A i \in 1..Len(sanitized) : PrintableAscii(sanitized[i]) \/ sanitized[i] = 10
        /\ \A i \in 1..(Len(sanitized) - 1) :
              ~(IsWhitespace(sanitized[i]) /\ IsWhitespace(sanitized[i + 1]))
        /\ sanitized # <<>> =>
              ~IsWhitespace(sanitized[1]) /\ ~IsWhitespace(sanitized[Len(sanitized)])
        /\ InnerNewline(raw_text) => Has(sanitized, 10)

\* The input with a space in the place of every newline.
NewlinesAsSpaces(t) == [i \in 1..Len(t) |-> IF t[i] = 10 THEN 32 ELSE t[i]]

\* C14, amended: the text returned by sanitize_for_pdf holds only printable
\* ASCII and no control character at all, has every whitespace run collapsed
\* to one space and no whitespace at its ends; a newline of the input is kept
\* by the character filter and then treated as whitespace: the result is that
\* of the same input with spaces in the place of its newlines.
C14_NewlinesBecomeSpaces ==
    cpc = "returned" =>
        /\ CleanText(sanitized)
        /\ ~Has(sanitized, 10)
        /\ sanitized = sanitize_for_pdf(NewlinesAsSpaces(raw_text))

\* A newline between two letters came out as the one space between them.
C14_Witness ==
    /\ cpc = "returned"
    /\ raw_text = <<97, 10, 233>>
    /\ sanitized = <<97, 32, 101>>

----------------------------------------------------------------------------
(* Claims about the page layout *)

\* The threshold below which the renderer starts a new page before drawing:
\* 3 cm for a heading and 2.5 cm for a body line in build_free_source_pdfs,
\* 3 cm in build_ipl_auction_dataset. Compared doubled, for the half.
DoubleBottom(d) ==
    IF renderer = "free" /\ d.kind = "body" THEN 5 * CM ELSE 6 * CM

\* C15: in both renderers, for content of any length, no heading and no body
\* line is drawn with the cursor below the bottom margin threshold: every
\* such line is drawn at a y between the threshold and the top margin.
C15_DrawnWithinMargins ==
    last_draw.kind \in {"heading", "body"} =>
        /\ 2 * last_draw.y >= DoubleBottom(last_draw)
        /\ last_draw.y <= TopY

\* C16: in build_free_source_pdfs the first body line of a section is drawn
\* on the page of its heading, one heading step below it: there is no page
\* break between a heading and its first body line.
C16_HeadingNotOrphaned ==
    renderer = "free" /\ last_draw.kind = "body" /\ last_draw.ln = 1 =>
        /\ last_draw.page = heading_draw.page
        /\ last_draw.y = heading_draw.y - FREE_HEADING_STEP

\* A heading was drawn less than a heading step above its threshold, so that
\* the cursor then stood below 3 cm, and the first line of its body followed
\* on the same page.
C16_Witness ==
    /\ renderer = "free"
    /\ last_draw.kind = "body"
    /\ last_draw.ln = 1
    /\ heading_draw.y < 3 * CM + FREE_HEADING_STEP
    /\ last_draw.page = heading_draw.page

====
